---- MODULE Spec2Model ----
(***************************************************************************)
(* Run / round lifecycle of the overlay: the StatsRecorder                  *)
(* (overlay/stats.py), the vision loop that drives it and the shutdown      *)
(* path of main() (overlay/main.py).                                        *)
(* The companion window's fields that the vision thread and the GUI thread  *)
(* both touch (overlay/companion.py), and the pure helpers of main.py,      *)
(* strategy.py and vision.py, each applied once to arguments fixed at the   *)
(* start of a behaviour.                                                    *)
(*                                                                          *)
(* A round label is the sequence of its characters ("3-10" is               *)
(* <<"3","-","1","0">>); Python's None is NoLabel for labels and None for   *)
(* optional integers.  datetime.now() is a logical clock, now, that ticks   *)
(* at every reading, so timestamps order the writes.                        *)
(***************************************************************************)
EXTENDS Integers, Sequences, FiniteSets, TLC

\* ------------------------------------------------------------------ bounds
MaxRuns == 2
MaxRecords == 3
MaxLabelLen == 4
MaxGold == 100
MaxComponents == 2
MaxUnits == 2
MaxHits == 3
MaxPixels == 60
MaxOcrLen == 4
MaxHexCols == 7
MaxHexRows == 4

\* ----------------------------------------------------------- Python values
None == -1
NoLabel == <<>>

L11 == <<"1", "-", "1">>
L12 == <<"1", "-", "2">>
L25 == <<"2", "-", "5">>
L310 == <<"3", "-", "1", "0">>
L15 == <<"1", "-", "5">>

\* the labels the reader reports in the modelled sessions
Labels == {L11, L12, L25, L310}

\* what the reader reads alongside the label: GameState.gold, .level, .lives
\* and len(items_on_bench); an unreadable field is None
Snapshot(g, lv, l, n) == [gold |-> g, level |-> lv, lives |-> l, num_components |-> n]
Snapshots == {Snapshot(None, None, None, 0), Snapshot(35, 4, 3, 1),
              Snapshot(50, 5, 2, 0)}

\* the arguments of direct record_round calls
\* (lives, component_count)
ApiReadings == {<<3, 5>>, <<2, 3>>, <<None, 1>>, <<3, 1>>, <<2, 5>>}
Reasons == {"completed", "eliminated"}

\* a captured frame; what is on it is what the reader reads from it
Frame == "frame"
\* CompanionWindow._last_frame before the first frame (None)
NoLastFrame == "None"
\* GameState.ionia_path: the path read from the frame, or None
NoPath == "None"
IoniaReadings == {NoPath, "Spirit"}
\* no helper function has been called
NoCall == [fn |-> "", args |-> <<>>]
\* the call has not returned
NoResult == [returned |-> FALSE, value |-> None]

Max(a, b) == IF a >= b THEN a ELSE b

\* ------------------------------------------------------- _round_str_to_int
Digits == {"0", "1", "2", "3", "4", "5", "6", "7", "8", "9"}

DigitVal(c) ==
    CASE c = "0" -> 0 [] c = "1" -> 1 [] c = "2" -> 2 [] c = "3" -> 3
      [] c = "4" -> 4 [] c = "5" -> 5 [] c = "6" -> 6 [] c = "7" -> 7
      [] c = "8" -> 8 [] c = "9" -> 9

\* int(s) succeeds (no ValueError) on a non-empty string of decimal digits
IsInt(s) == Len(s) > 0 /\ \A i \in 1..Len(s) : s[i] \in Digits

RECURSIVE IntOf(_)
IntOf(s) ==
    IF Len(s) = 0 THEN 0
    ELSE 10 * IntOf(SubSeq(s, 1, Len(s) - 1)) + DigitVal(s[Len(s)])

DashPositions(s) == {i \in 1..Len(s) : s[i] = "-"}

\* a conversion that numbers the stages from 0
_round_str_to_int_StageFromZero(round_str) ==
    IF Len(round_str) = 0 \/ DashPositions(round_str) = {} THEN 0
    ELSE IF Cardinality(DashPositions(round_str)) # 1 THEN 0
    ELSE LET d == CHOOSE i \in DashPositions(round_str) : TRUE
             stage == SubSeq(round_str, 1, d - 1)
             rnd == SubSeq(round_str, d + 1, Len(round_str))
         IN IF IsInt(stage) /\ IsInt(rnd)
            THEN IntOf(stage) * 10 + IntOf(rnd)
            ELSE 0

_round_str_to_int(round_str) ==
    IF Len(round_str) = 0 \/ DashPositions(round_str) = {} THEN 0
    ELSE IF Cardinality(DashPositions(round_str)) # 1 THEN 0
    ELSE LET d == CHOOSE i \in DashPositions(round_str) : TRUE
             stage == SubSeq(round_str, 1, d - 1)
             rnd == SubSeq(round_str, d + 1, Len(round_str))
         IN IF IsInt(stage) /\ IsInt(rnd)
            THEN (IntOf(stage) - 1) * 10 + IntOf(rnd)
            ELSE 0

\* ------------------------------------------------------------------- state
VARIABLES
    runs,                  \* table runs: row i has id i
    run_rounds,            \* table run_rounds, in insertion order
    _run_id,               \* StatsRecorder._run_id
    _rounds_completed,     \* StatsRecorder._rounds_completed
    _prev_components,      \* StatsRecorder._prev_components
    _prev_lives,           \* StatsRecorder._prev_lives
    _prev_champion_stars,  \* StatsRecorder._prev_champion_stars
    now,                   \* readings of datetime.now() so far
    prev_round,            \* vision_loop: prev_round
    current_round,         \* vision_loop: current_round of the last cycle
    stop_event,            \* main: stop_event
    thread,                \* the vision thread: "running", "returned", "killed",
                           \* "crashed" (left by an exception)
    _last_frame,           \* CompanionWindow._last_frame
    _ionia_locked,         \* CompanionWindow._ionia_locked
    augments,              \* CompanionWindow._picked_augments,
                           \* ._all_seen_augments, ._current_augment_round
                           \* and ._current_choices
    call,                  \* the helper function called last, with its arguments
    result                 \* what that call returned

recorder_vars == <<runs, run_rounds, _run_id, _rounds_completed,
                   _prev_components, _prev_lives, _prev_champion_stars, now>>
loop_vars == <<prev_round, current_round, stop_event, thread>>
companion_vars == <<_last_frame, _ionia_locked, augments>>
helper_vars == <<call, result>>
vars == <<runs, run_rounds, _run_id, _rounds_completed, _prev_components,
          _prev_lives, _prev_champion_stars, now, prev_round, current_round,
          stop_event, thread, _last_frame, _ionia_locked, augments, call,
          result>>

\* the champions the recorder is told about: a name and a star level
Names == {"Jinx", "Vi"}
NoStars == [n \in Names |-> 0]
Champ(n, s) == [name |-> n, stars |-> s]
\* (board_champions, bench_champions) of direct record_round calls
ChampionInputs ==
    {<<<<>>, <<>>>>,
     <<<<Champ("Jinx", 1)>>, <<>>>>,
     <<<<Champ("Jinx", 2)>>, <<Champ("Vi", 1)>>>>,
     <<<<Champ("Jinx", 1), Champ("Vi", 2)>>, <<Champ("Jinx", 3)>>>>}

\* the recorder and its database as one value, so that calls compose
State == [runs |-> runs, run_rounds |-> run_rounds, run_id |-> _run_id,
          rounds_completed |-> _rounds_completed,
          prev_components |-> _prev_components, prev_lives |-> _prev_lives,
          prev_champion_stars |-> _prev_champion_stars, now |-> now]

Apply(s) ==
    /\ runs' = s.runs
    /\ run_rounds' = s.run_rounds
    /\ _run_id' = s.run_id
    /\ _rounds_completed' = s.rounds_completed
    /\ _prev_components' = s.prev_components
    /\ _prev_lives' = s.prev_lives
    /\ _prev_champion_stars' = s.prev_champion_stars
    /\ now' = s.now

\* ----------------------------------------------------------- StatsRecorder
\* end_run that forgets to clear the recorder's run id
end_run_KeepsRunId(s, reason) ==
    IF s.run_id = None THEN s
    ELSE [s EXCEPT !.runs[s.run_id].ended_at = s.now + 1,
                   !.runs[s.run_id].end_reason = reason,
                   !.now = s.now + 1]

end_run(s, reason) ==
    IF s.run_id = None THEN s
    ELSE [s EXCEPT !.runs[s.run_id].ended_at = s.now + 1,
                   !.runs[s.run_id].end_reason = reason,
                   !.now = s.now + 1,
                   !.run_id = None]

\* start_run without the auto-close of the run that is still active
start_run_NoAutoClose(s) ==
    LET row == [started_at |-> s.now + 1, ended_at |-> None,
                rounds_completed |-> 0, end_reason |-> "NULL"]
    IN [s EXCEPT !.runs = Append(s.runs, row),
                 !.now = s.now + 1,
                 !.run_id = Len(s.runs) + 1,
                 !.rounds_completed = 0,
                 !.prev_components = None,
                 !.prev_lives = None,
                 !.prev_champion_stars = NoStars]

\* start_run that does not reset the round counter of the previous run
start_run_KeepsCounter(s) ==
    LET c == IF s.run_id # None THEN end_run(s, "abandoned") ELSE s
        row == [started_at |-> c.now + 1, ended_at |-> None,
                rounds_completed |-> 0, end_reason |-> "NULL"]
    IN [c EXCEPT !.runs = Append(c.runs, row),
                 !.now = c.now + 1,
                 !.run_id = Len(c.runs) + 1,
                 !.prev_components = None,
                 !.prev_lives = None,
                 !.prev_champion_stars = NoStars]

start_run(s) ==
    LET c == IF s.run_id # None THEN end_run(s, "abandoned") ELSE s
        row == [started_at |-> c.now + 1, ended_at |-> None,
                rounds_completed |-> 0, end_reason |-> "NULL"]
    IN [c EXCEPT !.runs = Append(c.runs, row),
                 !.now = c.now + 1,
                 !.run_id = Len(c.runs) + 1,
                 !.rounds_completed = 0,
                 !.prev_components = None,
                 !.prev_lives = None,
                 !.prev_champion_stars = NoStars]

RECURSIVE StarMapOf(_)
StarMapOf(list) ==
    IF Len(list) = 0 THEN NoStars
    ELSE LET rest == StarMapOf(SubSeq(list, 1, Len(list) - 1))
             m == list[Len(list)]
         IN [rest EXCEPT ![m.name] = Max(rest[m.name], m.stars)]

_build_star_map(board, bench) == StarMapOf(board \o bench)

RECURSIVE SumOver(_, _)
SumOver(f, S) ==
    IF S = {} THEN 0
    ELSE LET x == CHOOSE y \in S : TRUE IN f[x] + SumOver(f, S \ {x})

_count_star_ups(prev_stars, board, bench) ==
    LET current == _build_star_map(board, bench)
        gain == [n \in Names |->
                    IF current[n] > prev_stars[n] /\ prev_stars[n] > 0
                    THEN current[n] - prev_stars[n] ELSE 0]
    IN SumOver(gain, {n \in Names : current[n] > 0})

\* items_built without the clamp at 0
items_built_NoClamp(prev_components, component_count) ==
    (IF prev_components # None THEN prev_components
     ELSE component_count) - component_count

items_built_of(prev_components, component_count) ==
    Max(0, (IF prev_components # None THEN prev_components
            ELSE component_count) - component_count)

life_lost_of(prev_lives, lives) ==
    IF prev_lives # None /\ lives # None THEN Max(0, prev_lives - lives) ELSE 0

\* record_round without the early return when no run is active: the INSERT
\* goes through, the UPDATE matches no row
record_round_NoGuard(s, round_number, gold, level, lives, component_count, board, bench) ==
    LET row == [run_id |-> s.run_id, round_number |-> round_number,
                gold |-> gold, level |-> level,
                lives |-> lives, component_count |-> component_count,
                items_built |-> items_built_of(s.prev_components, component_count),
                life_lost |-> life_lost_of(s.prev_lives, lives),
                board_champions |-> board, bench_champions |-> bench,
                star_ups |-> _count_star_ups(s.prev_champion_stars, board, bench)]
    IN [s EXCEPT !.run_rounds = Append(s.run_rounds, row),
                 !.prev_champion_stars = _build_star_map(board, bench),
                 !.rounds_completed = s.rounds_completed + 1,
                 !.runs = [i \in DOMAIN s.runs |->
                             IF i = s.run_id
                             THEN [s.runs[i] EXCEPT !.rounds_completed =
                                      s.rounds_completed + 1]
                             ELSE s.runs[i]],
                 !.prev_components = component_count,
                 !.prev_lives = IF lives # None THEN lives ELSE s.prev_lives]

\* record_round that takes every lives value, None too, as the last known one
record_round_ForgetsLives(s, round_number, gold, level, lives, component_count, board, bench) ==
    IF s.run_id = None THEN s
    ELSE
    LET row == [run_id |-> s.run_id, round_number |-> round_number,
                gold |-> gold, level |-> level,
                lives |-> lives, component_count |-> component_count,
                items_built |-> items_built_of(s.prev_components, component_count),
                life_lost |-> life_lost_of(s.prev_lives, lives),
                board_champions |-> board, bench_champions |-> bench,
                star_ups |-> _count_star_ups(s.prev_champion_stars, board, bench)]
    IN [s EXCEPT !.run_rounds = Append(s.run_rounds, row),
                 !.prev_champion_stars = _build_star_map(board, bench),
                 !.rounds_completed = s.rounds_completed + 1,
                 !.runs[s.run_id].rounds_completed = s.rounds_completed + 1,
                 !.prev_components = component_count,
                 !.prev_lives = lives]

record_round(s, round_number, gold, level, lives, component_count, board, bench) ==
    IF s.run_id = None THEN s
    ELSE
    LET row == [run_id |-> s.run_id, round_number |-> round_number,
                gold |-> gold, level |-> level,
                lives |-> lives, component_count |-> component_count,
                items_built |-> items_built_of(s.prev_components, component_count),
                life_lost |-> life_lost_of(s.prev_lives, lives),
                board_champions |-> board, bench_champions |-> bench,
                star_ups |-> _count_star_ups(s.prev_champion_stars, board, bench)]
    IN [s EXCEPT !.run_rounds = Append(s.run_rounds, row),
                 !.prev_champion_stars = _build_star_map(board, bench),
                 !.rounds_completed = s.rounds_completed + 1,
                 !.runs[s.run_id].rounds_completed = s.rounds_completed + 1,
                 !.prev_components = component_count,
                 !.prev_lives = IF lives # None THEN lives ELSE s.prev_lives]

\* ------------------------------------------------------------- vision_loop
\* a loop that does not hand the level on
RecordSnapshot_NoLevel(s, label, state) ==
    record_round(s, label, state.gold, None, state.lives,
                 state.num_components, <<>>, <<>>)

\* the loop's record_round call: the label given, the fields of the current
\* snapshot, no champion lists (board_champions = bench_champions = None)
RecordSnapshot(s, label, state) ==
    record_round(s, label, state.gold, state.level, state.lives,
                 state.num_components, <<>>, <<>>)

\* the lost-signal branch of a cycle (main.py 59-71)
LostSignal(s, prev, cur) == cur = NoLabel /\ prev = L310 /\ s.run_id # None

\* a loop without the lost-signal branch
AfterLostSignal_Missing(s, prev, cur, state) == s

AfterLostSignal(s, prev, cur, state) ==
    IF LostSignal(s, prev, cur)
    THEN end_run(RecordSnapshot(s, L310, state), "completed")
    ELSE s

PrevAfterLostSignal(s, prev, cur) ==
    IF LostSignal(s, prev, cur) THEN NoLabel ELSE prev

\* a transition branch that opens a run on any new label while idle
AfterTransition_StartsOnAnyLabel(s, prev, cur, state) ==
    IF cur # NoLabel /\ cur # prev
    THEN IF cur = L11 \/ s.run_id = None
         THEN start_run(IF s.run_id # None THEN end_run(s, "abandoned") ELSE s)
         ELSE IF prev # NoLabel
              THEN LET r == RecordSnapshot(s, prev, state)
                   IN IF prev = L310 THEN end_run(r, "completed") ELSE r
              ELSE s
    ELSE s

\* a transition branch without the check for the terminal round
AfterTransition_NeverCompletes(s, prev, cur, state) ==
    IF cur # NoLabel /\ cur # prev
    THEN IF cur = L11
         THEN start_run(IF s.run_id # None THEN end_run(s, "abandoned") ELSE s)
         ELSE IF prev # NoLabel
              THEN RecordSnapshot(s, prev, state)
              ELSE s
    ELSE s

\* the round-transition branch of a cycle (main.py 74-98)
AfterTransition(s, prev, cur, state) ==
    IF cur # NoLabel /\ cur # prev
    THEN IF cur = L11
         THEN start_run(IF s.run_id # None THEN end_run(s, "abandoned") ELSE s)
         ELSE IF prev # NoLabel
              THEN LET r == RecordSnapshot(s, prev, state)
                   IN IF prev = L310 THEN end_run(r, "completed") ELSE r
              ELSE s
    ELSE s

PrevAfterTransition(prev, cur) ==
    IF cur # NoLabel /\ cur # prev THEN cur ELSE prev

WithinBounds(s) == Len(s.runs) <= MaxRuns /\ Len(s.run_rounds) <= MaxRecords

\* companion.update_game_state, as far as the Ionia lock goes: a new game
\* ("1-1") clears the lock, a path that was read sets it
IoniaLockedAfter(locked, cur, ionia_path) ==
    LET l == IF cur = L11 THEN FALSE ELSE locked
    IN IF ~l /\ ionia_path # NoPath THEN TRUE ELSE l

\* the augment tracking of a CompanionWindow: the confirmed picks, the names
\* seen in the current augment round, that round (None is the empty label)
\* and the choices detected last
AugmentState(picked, seen, cur_round, choices) ==
    [picked |-> picked, seen |-> seen, cur_round |-> cur_round,
     choices |-> choices]
\* CompanionWindow.__init__: nothing picked, seen or detected
NoAugments == AugmentState(<<>>, {}, NoLabel, <<>>)
_AUGMENT_ROUNDS == {L15, L25, <<"3", "-", "5">>}
Elements(seq) == {seq[i] : i \in 1..Len(seq)}

\* update_game_state that leaves the tracking of the last game in place
update_augments_NoReset(a, round_number, augment_choices) ==
    IF augment_choices # <<>> /\ round_number \in _AUGMENT_ROUNDS
    THEN LET seen0 == IF round_number # a.cur_round THEN {} ELSE a.seen
         IN AugmentState(a.picked, seen0 \cup Elements(augment_choices),
                         round_number,
                         IF Elements(augment_choices) # Elements(a.choices)
                         THEN augment_choices ELSE a.choices)
    ELSE a

\* companion.update_game_state, as far as the augment tracking goes: a new
\* game ("1-1") clears it; choices shown on an augment round are added to the
\* names seen (which start afresh on each augment round) and replace the
\* current choices when they differ as sets
update_augments(a, round_number, augment_choices) ==
    LET a0 == IF round_number = L11 THEN NoAugments ELSE a
    IN IF augment_choices # <<>> /\ round_number \in _AUGMENT_ROUNDS
       THEN LET seen0 == IF round_number # a0.cur_round THEN {} ELSE a0.seen
            IN AugmentState(a0.picked, seen0 \cup Elements(augment_choices),
                            round_number,
                            IF Elements(augment_choices) # Elements(a0.choices)
                            THEN augment_choices ELSE a0.choices)
       ELSE a0

\* GameState.augment_choices as GameStateReader.read leaves it: the reader's
\* phase is never "augment", so the list keeps its default []
NoChoices == <<>>

\* one cycle on a frame: the reader yields the label cur, the snapshot
\* fields state and the Ionia path ionia_path; the thread calls
\* companion.set_frame and companion.update_game_state itself
Cycle(cur, state, ionia_path) ==
    /\ thread = "running"
    /\ ~stop_event
    /\ LET s1 == AfterLostSignal(State, prev_round, cur, state)
           p1 == PrevAfterLostSignal(State, prev_round, cur)
           s2 == AfterTransition(s1, p1, cur, state)
           p2 == PrevAfterTransition(p1, cur)
       IN /\ WithinBounds(s2)
          /\ Apply(s2)
          /\ prev_round' = p2
          /\ current_round' = cur
    /\ _last_frame' = Frame
    /\ _ionia_locked' = IoniaLockedAfter(_ionia_locked, cur, ionia_path)
    /\ augments' = update_augments(augments, cur, NoChoices)
    /\ UNCHANGED <<stop_event, thread, helper_vars>>

\* capture.grab() returned None: sleep and continue
NoFrame ==
    /\ thread = "running"
    /\ ~stop_event
    /\ UNCHANGED vars

\* main(): the window is closed, stop_event.set(); capture.stop()
SetStop ==
    /\ thread = "running"
    /\ ~stop_event
    /\ stop_event' = TRUE
    /\ UNCHANGED <<recorder_vars, prev_round, current_round, thread,
                   companion_vars, helper_vars>>

\* the loop sees the stop signal (or grab() raises on the stopped capture):
\* the finally block closes the active run
LoopExit ==
    /\ thread = "running"
    /\ stop_event
    /\ Apply(IF _run_id # None THEN end_run(State, "abandoned") ELSE State)
    /\ thread' = "returned"
    /\ UNCHANGED <<prev_round, current_round, stop_event, companion_vars,
                   helper_vars>>

\* main() returns without joining the daemon thread: the interpreter exits
\* and the vision thread is stopped where it is
ProcessExit ==
    /\ thread = "running"
    /\ stop_event
    /\ thread' = "killed"
    /\ UNCHANGED <<recorder_vars, prev_round, current_round, stop_event,
                   companion_vars, helper_vars>>

Init ==
    /\ runs = <<>>
    /\ run_rounds = <<>>
    /\ _run_id = None
    /\ _rounds_completed = 0
    /\ _prev_components = None
    /\ _prev_lives = None
    /\ _prev_champion_stars = NoStars
    /\ now = 0
    /\ prev_round = NoLabel
    /\ current_round = NoLabel
    /\ stop_event = FALSE
    /\ thread = "running"
    /\ _last_frame = NoLastFrame
    /\ _ionia_locked = FALSE
    /\ augments = NoAugments
    /\ call = NoCall
    /\ result = NoResult

Next ==
    \/ \E cur \in Labels \cup {NoLabel}, state \in Snapshots,
          ionia_path \in IoniaReadings : Cycle(cur, state, ionia_path)
    \/ NoFrame
    \/ SetStop
    \/ LoopExit
    \/ ProcessExit

Spec == Init /\ [][Next]_vars

\* ------------------------------------------------- database write failures
\* a cycle in which the first recorder call that writes raises a database
\* error before it changes anything.  The loop has no handler: the exception
\* leaves the while loop, the finally block tries end_run("abandoned") (which
\* goes through or raises in turn, finally_raises), and the thread ends.
\* start_run and end_run read the clock before they write.
CycleWriteFails(cur, state, ionia_path, finally_raises) ==
    /\ thread = "running"
    /\ ~stop_event
    /\ LET s1 == AfterLostSignal(State, prev_round, cur, state)
           p1 == PrevAfterLostSignal(State, prev_round, cur)
           s2 == AfterTransition(s1, p1, cur, state)
           failed == [State EXCEPT !.now = IF cur = L11 THEN now + 1 ELSE now]
       IN /\ s2 # State
          /\ Apply(IF _run_id = None THEN failed
                   ELSE IF finally_raises
                        THEN [failed EXCEPT !.now = failed.now + 1]
                        ELSE end_run(failed, "abandoned"))
    /\ current_round' = cur
    /\ _last_frame' = Frame
    /\ thread' = "crashed"
    /\ UNCHANGED <<prev_round, stop_event, _ionia_locked, augments,
                 helper_vars>>

NextFaults ==
    \/ Next
    \/ \E cur \in Labels \cup {NoLabel}, state \in Snapshots,
          ionia_path \in IoniaReadings, finally_raises \in BOOLEAN :
          CycleWriteFails(cur, state, ionia_path, finally_raises)

SpecFaults == Init /\ [][NextFaults]_vars

\* ------------------------------------------------------ the GUI thread
\* the user clicks the Ionia unlock button while the application runs
\* (_on_ionia_unlock, on the GUI thread)
IoniaUnlock ==
    /\ thread = "running"
    /\ ~stop_event
    /\ _ionia_locked
    /\ _ionia_locked' = FALSE
    /\ UNCHANGED <<recorder_vars, loop_vars, _last_frame, augments,
                 helper_vars>>

NextGui == Next \/ IoniaUnlock

SpecGui == Init /\ [][NextGui]_vars

\* ------------------------------------------- direct use of the recorder
\* a client (the tests) that constructs a StatsRecorder and calls its methods
\* in any order; no vision thread exists
InitRecorder ==
    /\ runs = <<>>
    /\ run_rounds = <<>>
    /\ _run_id = None
    /\ _rounds_completed = 0
    /\ _prev_components = None
    /\ _prev_lives = None
    /\ _prev_champion_stars = NoStars
    /\ now = 0
    /\ prev_round = NoLabel
    /\ current_round = NoLabel
    /\ stop_event = FALSE
    /\ thread = "none"
    /\ _last_frame = NoLastFrame
    /\ _ionia_locked = FALSE
    /\ augments = NoAugments
    /\ call = NoCall
    /\ result = NoResult

StartRun ==
    /\ thread = "none"
    /\ WithinBounds(start_run(State))
    /\ Apply(start_run(State))
    /\ UNCHANGED <<loop_vars, companion_vars, helper_vars>>

RecordRound(round_number, gold, level, lives, component_count, champions) ==
    /\ thread = "none"
    /\ WithinBounds(record_round(State, round_number, gold, level, lives,
                                 component_count, champions[1], champions[2]))
    /\ Apply(record_round(State, round_number, gold, level, lives,
                          component_count, champions[1], champions[2]))
    /\ UNCHANGED <<loop_vars, companion_vars, helper_vars>>

EndRun(reason) ==
    /\ thread = "none"
    /\ Apply(end_run(State, reason))
    /\ UNCHANGED <<loop_vars, companion_vars, helper_vars>>

NextRecorder ==
    \/ StartRun
    \/ \E r \in ApiReadings :
          RecordRound(L12, None, None, r[1], r[2], <<<<>>, <<>>>>)
    \/ \E reason \in Reasons : EndRun(reason)

SpecRecorder == InitRecorder /\ [][NextRecorder]_vars

\* the recorder told about champions
NextStars ==
    \/ StartRun
    \/ \E c \in ChampionInputs : RecordRound(L12, None, None, None, 0, c)
    \/ EndRun("eliminated")

SpecStars == InitRecorder /\ [][NextStars]_vars

\* both uses of the recorder: by the vision loop of the program, and directly
InitBoth == Init \/ InitRecorder
NextBoth == Next \/ NextRecorder
SpecBoth == InitBoth /\ [][NextBoth]_vars

\* ---------------------------------------------------------- pure helpers
\* the helper functions of main.py, strategy.py and vision.py, each called on
\* its own with arguments from the sets below
Min(a, b) == IF a <= b THEN a ELSE b
Abs(a) == IF a >= 0 THEN a ELSE 0 - a
Range(seq) == {seq[i] : i \in DOMAIN seq}

\* strings handed to _round_str_to_int: None and "" are both NoLabel; over
\* these characters int() accepts exactly the non-empty digit strings
LabelChars == {"0", "1", "2", "3", "5", "-", "x"}
LabelStrings == UNION {[1..n -> LabelChars] : n \in 0..MaxLabelLen}

\* interest without the cap of 5 units
interest_NoCap(gold) == gold \div 10

interest(gold) == Min(gold \div 10, 5)

component_score(num_components, rounds_remaining) ==
    num_components * 2500 * rounds_remaining

\* a projection over the rounds that remain after current_round
projected_score_RemainingRounds(cur_round, num_components, gold, surviving_units) ==
    LET total_rounds == 30 - cur_round
        component_pts == component_score(num_components, total_rounds)
        interest_pts == interest(gold) * 1000 * total_rounds
        surviving_pts == surviving_units * 250 * total_rounds
        time_pts == 2750 * total_rounds
    IN [component_pts |-> component_pts, interest_pts |-> interest_pts,
        surviving_pts |-> surviving_pts, time_pts |-> time_pts,
        total |-> component_pts + interest_pts + surviving_pts + time_pts]

projected_score(cur_round, num_components, gold, surviving_units) ==
    LET total_rounds == 30
        component_pts == component_score(num_components, total_rounds)
        interest_pts == interest(gold) * 1000 * total_rounds
        surviving_pts == surviving_units * 250 * total_rounds
        time_pts == 2750 * total_rounds
    IN [component_pts |-> component_pts, interest_pts |-> interest_pts,
        surviving_pts |-> surviving_pts, time_pts |-> time_pts,
        total |-> component_pts + interest_pts + surviving_pts + time_pts]

\* absolute round numbers handed to projected_score as current_round
\* (cur_round above)
ScoreRounds == {0, 1, 15, 30}

\* raw template hits (vision.Match): a position and a confidence in hundredths
Match(x, y, c) == [name |-> "Jinx", x |-> x, y |-> y, confidence |-> c]
HitPositions == {<<0, 0>>, <<5, 5>>, <<12, 0>>, <<5, 12>>}
Confidences == {80, 90, 95}
RawHits == {Match(p[1], p[2], c) : p \in HitPositions, c \in Confidences}
\* the lists find_matches collects: no hit twice
HitLists ==
    {ms \in UNION {[1..n -> RawHits] : n \in 0..MaxHits} :
        \A i, j \in DOMAIN ms : i # j => ms[i] # ms[j]}

\* list.sort(key=lambda m: -m.confidence): stable, so hits of equal
\* confidence keep their order
InsertByConfidence(sorted, m) ==
    LET k == Cardinality({i \in DOMAIN sorted : sorted[i].confidence >= m.confidence})
    IN SubSeq(sorted, 1, k) \o <<m>> \o SubSeq(sorted, k + 1, Len(sorted))

RECURSIVE SortByConfidence(_)
SortByConfidence(matches) ==
    IF Len(matches) = 0 THEN <<>>
    ELSE InsertByConfidence(SortByConfidence(SubSeq(matches, 1, Len(matches) - 1)),
                            matches[Len(matches)])

Collides(m, k, distance) == Abs(m.x - k.x) < distance /\ Abs(m.y - k.y) < distance

RECURSIVE KeepFrom(_, _, _)
KeepFrom(matches, kept, distance) ==
    IF Len(matches) = 0 THEN kept
    ELSE LET m == Head(matches)
         IN KeepFrom(Tail(matches),
                     IF \E i \in DOMAIN kept : Collides(m, kept[i], distance)
                     THEN kept ELSE Append(kept, m),
                     distance)

\* deduplication that takes the hits in the order given
_deduplicate_Unsorted(matches) ==
    IF Len(matches) = 0 THEN <<>>
    ELSE KeepFrom(matches, <<>>, 10)

_deduplicate(matches) ==
    IF Len(matches) = 0 THEN <<>>
    ELSE KeepFrom(SortByConfidence(matches), <<>>, 10)

\* the classification that tests the total first
StarsFromPips_TotalFirst(gold_pixels, silver_pixels) ==
    LET total_pip_pixels == gold_pixels + silver_pixels
    IN IF total_pip_pixels > 30 THEN 2
       ELSE IF gold_pixels > 50 THEN 3
       ELSE IF total_pip_pixels > 5 THEN 1
       ELSE 1

\* the classification of the pip counts (vision.py 389-394)
StarsFromPips(gold_pixels, silver_pixels) ==
    LET total_pip_pixels == gold_pixels + silver_pixels
    IN IF gold_pixels > 50 THEN 3
       ELSE IF total_pip_pixels > 30 THEN 2
       ELSE IF total_pip_pixels > 5 THEN 1
       ELSE 1

\* the strip below the champion icon, clamped to the frame of h rows and w
\* columns
PipStrip(h, w, x, y) ==
    LET pip_x == Max(0, x - 10)
        pip_y == Max(0, y + 60)
        pip_w == IF pip_x + 80 > w THEN w - pip_x ELSE 80
        pip_h == IF pip_y + 20 > h THEN h - pip_y ELSE 20
    IN [pip_x |-> pip_x, pip_y |-> pip_y, pip_w |-> pip_w, pip_h |-> pip_h]

\* gold_pixels and silver_pixels are what the two colour masks count in the
\* strip of this frame
_detect_stars(h, w, x, y, gold_pixels, silver_pixels) ==
    LET s == PipStrip(h, w, x, y)
    IN IF s.pip_w <= 0 \/ s.pip_h <= 0 THEN 0
       ELSE StarsFromPips(gold_pixels, silver_pixels)

\* frame.shape[:2] and the position of the detected champion
FrameShapes == {<<100, 100>>, <<70, 50>>}
MatchPositions == {<<0, 0>>, <<30, 25>>, <<45, 9>>, <<20, 40>>, <<40, 69>>}

\* what Tesseract returns for a text region, as a string over these characters
OcrChars == {"0", "1", "3", "4", "x"}
OcrTexts == UNION {[1..n -> OcrChars] : n \in 0..MaxOcrLen}
RoundOcrChars == {"0", "1", "3", "-", " ", "x"}
RoundOcrTexts == UNION {[1..n -> RoundOcrChars] : n \in 0..MaxOcrLen}

IsDigit(c) == c \in Digits

\* _read_lives: re.sub(r"\D", "", text), then the FIRST digit alone is the value
_read_lives(text) ==
    LET digits == SelectSeq(text, IsDigit)
    IN IF Len(digits) > 0
       THEN LET val == DigitVal(digits[1])
            IN IF 1 <= val /\ val <= 3 THEN val ELSE None
       ELSE None

\* the start of the run of digits that ends at position e
RECURSIVE RunStart(_, _)
RunStart(text, e) ==
    IF e > 1 /\ IsDigit(text[e - 1]) THEN RunStart(text, e - 1) ELSE e

\* the end of the run of digits that starts at position i
RECURSIVE RunEnd(_, _)
RunEnd(text, i) ==
    IF i < Len(text) /\ IsDigit(text[i + 1]) THEN RunEnd(text, i + 1) ELSE i

\* the first position from i on that holds no space
RECURSIVE SkipSpaces(_, _)
SkipSpaces(text, i) ==
    IF i <= Len(text) /\ text[i] = " " THEN SkipSpaces(text, i + 1) ELSE i

\* _read_level: re.findall(r"\d+", text)[-1] as an integer, kept if in 1..10
_read_level(text) ==
    LET ends == {i \in DOMAIN text : IsDigit(text[i])}
    IN IF ends # {}
       THEN LET e == CHOOSE i \in ends : \A j \in ends : j <= i
                val == IntOf(SubSeq(text, RunStart(text, e), e))
            IN IF 1 <= val /\ val <= 10 THEN val ELSE None
       ELSE None

\* a match of \d+\s*-\s*\d+ that starts at i: [from, to] of its two numbers
RoundMatchAt(text, i) ==
    LET e1 == RunEnd(text, i)
        d == SkipSpaces(text, e1 + 1)
        s2 == SkipSpaces(text, d + 1)
    IN IF d <= Len(text) /\ text[d] = "-" /\ s2 <= Len(text) /\ IsDigit(text[s2])
       THEN <<SubSeq(text, i, e1), SubSeq(text, s2, RunEnd(text, s2))>>
       ELSE <<>>

\* _read_round: re.search(r"(\d+\s*-\s*\d+)", text), spaces removed; None if
\* there is no match
_read_round(text) ==
    LET starts == {i \in DOMAIN text :
                      IsDigit(text[i]) /\ RoundMatchAt(text, i) # <<>>}
    IN IF starts = {} THEN NoLabel
       ELSE LET i == CHOOSE k \in starts : \A j \in starts : k <= j
                m == RoundMatchAt(text, i)
            IN m[1] \o <<"-">> \o m[2]

\* vision_loop: rounds_remaining = max(0, 30 - abs_round)
rounds_remaining_of(round_label) ==
    Max(0, 30 - _round_str_to_int(round_label))

\* a hex layout: TFTLayout.board_hex_origin, _cols, _rows, _col_width,
\* _row_height, _row_offset, _portrait_h
HexLayout(origin, cols, rows, dims) ==
    [ox |-> origin[1], oy |-> origin[2], cols |-> cols, rows |-> rows,
     col_width |-> dims[1], row_height |-> dims[2], row_offset |-> dims[3],
     portrait_h |-> dims[4]]
HexOrigins == {<<600, 555>>, <<0, 0>>}
HexDims == {<<194, 130, 97, 115>>, <<10, 7, 3, 5>>}
HexLayouts ==
    {HexLayout(o, c, r, d) : o \in HexOrigins, c \in 0..MaxHexCols,
                             r \in 0..MaxHexRows, d \in HexDims}

ScreenRegion(x, y, w, h) == [x |-> x, y |-> y, w |-> w, h |-> h]

\* a grid whose even rows are the shifted ones
HexCell_EvenRowsShifted(layout, row, col) ==
    ScreenRegion(layout.ox + col * layout.col_width
                    + (IF row % 2 = 0 THEN layout.row_offset ELSE 0),
                 layout.oy + row * layout.row_height,
                 layout.col_width, layout.portrait_h)

\* the body of the two loops of board_hex_regions
HexCell(layout, row, col) ==
    ScreenRegion(layout.ox + col * layout.col_width
                    + (IF row % 2 = 1 THEN layout.row_offset ELSE 0),
                 layout.oy + row * layout.row_height,
                 layout.col_width, layout.portrait_h)

\* for col in range(cols): regions.append(...)
RECURSIVE HexRowFrom(_, _, _)
HexRowFrom(layout, row, col) ==
    IF col >= layout.cols THEN <<>>
    ELSE <<HexCell(layout, row, col)>> \o HexRowFrom(layout, row, col + 1)

\* for row in range(rows): ...
RECURSIVE HexRowsFrom(_, _)
HexRowsFrom(layout, row) ==
    IF row >= layout.rows THEN <<>>
    ELSE HexRowFrom(layout, row, 0) \o HexRowsFrom(layout, row + 1)

board_hex_regions(layout) == HexRowsFrom(layout, 0)

\* ------------------------------------------------- GameStateReader.read
\* what a frame shows, region by region: the round label and the gold that
\* OCR reads (or nothing), the item hits on the bench, the five shop cards
\* (NoCard: a slot too dark to read), the augment hits in the augment area;
\* fault names the sub-read whose OpenCV or Tesseract call raises on this
\* frame (a region outside the frame gives an empty crop, on which
\* cv2.cvtColor raises), "none" if none does
NoCard == "None"
DarkShop == <<NoCard, NoCard, NoCard, NoCard, NoCard>>
ShownFrame(r, g, items, cards, augs, fault) ==
    [round |-> r, gold |-> g, items |-> items, shop_cards |-> cards,
     augments |-> augs, fault |-> fault]
SubReadFaults == {"none", "round_number", "gold", "shop"}
ShownFrames ==
    {ShownFrame(r, g, items, cards, augs, fault) :
        r \in {NoLabel, L12}, g \in {None, 35},
        items \in {<<>>, <<"Sword">>},
        cards \in {DarkShop, <<"Jinx", NoCard, "Vi", NoCard, NoCard>>},
        augs \in {<<>>, <<"X", "Y", "Z">>},
        fault \in SubReadFaults}
\* a reader: whether an item matcher and an augment matcher were supplied
Readers == [item_matcher : BOOLEAN, augment_matcher : BOOLEAN]

\* a phase detection that recognises the augment selection
_detect_phase_SeesAugments(frame) ==
    IF frame.augments # <<>> THEN "augment" ELSE "planning"

_detect_phase(frame) == "planning"

\* a shop read that leaves out the slots it cannot read
_read_shop_names_SkipsDark(frame) ==
    SelectSeq(frame.shop_cards, LAMBDA c : c # NoCard)

\* one name per slot, "" for a slot that _read_single_card gives up on
_read_shop_names(frame) ==
    [i \in DOMAIN frame.shop_cards |->
        IF frame.shop_cards[i] = NoCard THEN "" ELSE frame.shop_cards[i]]

\* read has no exception handler: a sub-read that raises ends the call.
\* Otherwise every scalar sub-read fills its field, the items are matched if
\* there is an item matcher, and the augments only in phase "augment"
read(reader, frame) ==
    IF frame.fault # "none"
    THEN [raised |-> TRUE, state |-> "none"]
    ELSE LET phase == _detect_phase(frame)
         IN [raised |-> FALSE,
             state |-> [phase |-> phase,
                        round_number |-> frame.round,
                        gold |-> frame.gold,
                        shop |-> _read_shop_names(frame),
                        items_on_bench |-> IF reader.item_matcher
                                           THEN frame.items ELSE <<>>,
                        augment_choices |->
                            IF phase = "augment" /\ reader.augment_matcher
                            THEN frame.augments ELSE <<>>]]

Call(fn, args) == [fn |-> fn, args |-> args]
Returned(v) == [returned |-> TRUE, value |-> v]

\* the calls made: one function, applied to each argument tuple of the sets
\* above
RoundCalls == {Call("_round_str_to_int", <<s>>) : s \in LabelStrings}
InterestCalls == {Call("interest", <<gold>>) : gold \in 0..MaxGold}
ScoreCalls ==
    {Call("projected_score", <<cr, n, gold, units>>) :
        cr \in ScoreRounds, n \in 0..MaxComponents, gold \in 0..MaxGold,
        units \in 0..MaxUnits}
DedupCalls == {Call("_deduplicate", <<ms>>) : ms \in HitLists}
\* the two masks are disjoint (saturation >= 100 against <= 60), so the
\* counts together do not exceed the strip; no strip, nothing counted
PixelCounts(h, w, x, y) ==
    LET s == PipStrip(h, w, x, y)
    IN IF s.pip_w <= 0 \/ s.pip_h <= 0 THEN {<<0, 0>>}
       ELSE {c \in (0..MaxPixels) \X (0..MaxPixels) :
                c[1] + c[2] <= s.pip_w * s.pip_h}
DetectCalls ==
    UNION {{Call("_detect_stars", <<shape[1], shape[2], pos[1], pos[2], c[1], c[2]>>) :
               c \in PixelCounts(shape[1], shape[2], pos[1], pos[2])} :
           shape \in FrameShapes, pos \in MatchPositions}

\* the helpers keep no state between calls: a behaviour is one call, whose
\* arguments are fixed at the start
InitCall(calls) ==
    /\ runs = <<>>
    /\ run_rounds = <<>>
    /\ _run_id = None
    /\ _rounds_completed = 0
    /\ _prev_components = None
    /\ _prev_lives = None
    /\ _prev_champion_stars = NoStars
    /\ now = 0
    /\ prev_round = NoLabel
    /\ current_round = NoLabel
    /\ stop_event = FALSE
    /\ thread = "none"
    /\ _last_frame = NoLastFrame
    /\ _ionia_locked = FALSE
    /\ augments = NoAugments
    /\ call \in calls
    /\ result = NoResult

Return(v) ==
    /\ ~result.returned
    /\ result' = Returned(v)
    /\ UNCHANGED <<recorder_vars, loop_vars, companion_vars, call>>

RoundStrToInt ==
    /\ call.fn = "_round_str_to_int"
    /\ Return(_round_str_to_int(call.args[1]))

Interest ==
    /\ call.fn = "interest"
    /\ Return(interest(call.args[1]))

ProjectedScore ==
    /\ call.fn = "projected_score"
    /\ Return(projected_score(call.args[1], call.args[2], call.args[3],
                              call.args[4]))

Deduplicate ==
    /\ call.fn = "_deduplicate"
    /\ Return(_deduplicate(call.args[1]))

DetectStars ==
    /\ call.fn = "_detect_stars"
    /\ Return(_detect_stars(call.args[1], call.args[2], call.args[3],
                            call.args[4], call.args[5], call.args[6]))

SpecRound == InitCall(RoundCalls) /\ [][RoundStrToInt]_vars

NextScore == Interest \/ ProjectedScore
SpecScore == InitCall(InterestCalls \cup ScoreCalls) /\ [][NextScore]_vars

SpecDedup == InitCall(DedupCalls) /\ [][Deduplicate]_vars

SpecDetect == InitCall(DetectCalls) /\ [][DetectStars]_vars

LivesCalls == {Call("_read_lives", <<text>>) : text \in OcrTexts}
LevelCalls == {Call("_read_level", <<text>>) : text \in OcrTexts}
RemainingCalls == {Call("rounds_remaining", <<text>>) : text \in RoundOcrTexts}
HexCalls == {Call("board_hex_regions", <<layout>>) : layout \in HexLayouts}

ReadLives ==
    /\ call.fn = "_read_lives"
    /\ Return(_read_lives(call.args[1]))

ReadLevel ==
    /\ call.fn = "_read_level"
    /\ Return(_read_level(call.args[1]))

\* the loop on a frame whose round region reads call.args[1]
RoundsRemaining ==
    /\ call.fn = "rounds_remaining"
    /\ LET current_round_read == _read_round(call.args[1])
       IN Return([current_round |-> current_round_read,
                  rounds_remaining |-> rounds_remaining_of(current_round_read)])

BoardHexRegions ==
    /\ call.fn = "board_hex_regions"
    /\ Return(board_hex_regions(call.args[1]))

NextOcr == ReadLives \/ ReadLevel \/ RoundsRemaining
SpecOcr == InitCall(LivesCalls \cup LevelCalls \cup RemainingCalls) /\ [][NextOcr]_vars

SpecHex == InitCall(HexCalls) /\ [][BoardHexRegions]_vars

ReadCalls ==
    {Call("read", <<reader, frame>>) : reader \in Readers, frame \in ShownFrames}

Read ==
    /\ call.fn = "read"
    /\ Return(read(call.args[1], call.args[2]))

SpecRead == InitCall(ReadCalls) /\ [][Read]_vars

\* ------------------------------------------- direct use of the window
\* a client (the tests) that constructs a CompanionWindow, gives it a reader
\* and calls its methods in any order; no vision thread exists
AugmentNames == {"X", "Y"}
\* GameState.augment_choices of the states handed to the window
ChoiceLists == {<<>>, <<"X">>, <<"X", "Y">>, <<"Y", "X">>}
CompanionRounds == {NoLabel, L11, L12, L15, L25}
\* what reader.read_selected_augment returns: a name, or None ("")
SelectedAugments == AugmentNames \cup {""}

SetFrame ==
    /\ thread = "none"
    /\ _last_frame' = Frame
    /\ call' = Call("set_frame", <<Frame>>)
    /\ UNCHANGED <<recorder_vars, loop_vars, _ionia_locked, augments, result>>

UpdateGameState(round_number, augment_choices, ionia_path) ==
    /\ thread = "none"
    /\ _ionia_locked' = IoniaLockedAfter(_ionia_locked, round_number, ionia_path)
    /\ augments' = update_augments(augments, round_number, augment_choices)
    /\ call' = Call("update_game_state",
                    <<round_number, augment_choices, ionia_path>>)
    /\ UNCHANGED <<recorder_vars, loop_vars, _last_frame, result>>

\* a right click: the pick read from the last frame is appended while fewer
\* than three are held
ContextMenu(name) ==
    /\ thread = "none"
    /\ augments' = IF _last_frame # NoLastFrame /\ name # ""
                      /\ Len(augments.picked) < 3
                   THEN [augments EXCEPT !.picked = Append(@, name)]
                   ELSE augments
    /\ call' = Call("contextMenuEvent", <<name>>)
    /\ UNCHANGED <<recorder_vars, loop_vars, _last_frame, _ionia_locked, result>>

NextCompanion ==
    \/ SetFrame
    \/ \E round_number \in CompanionRounds, augment_choices \in ChoiceLists,
          ionia_path \in IoniaReadings :
          UpdateGameState(round_number, augment_choices, ionia_path)
    \/ \E name \in SelectedAugments : ContextMenu(name)

SpecCompanion == InitRecorder /\ [][NextCompanion]_vars

\* ------------------------------------------------------------- properties
OpenRuns == {i \in DOMAIN runs : runs[i].ended_at = None}
RecordsOfRun(i) == {k \in DOMAIN run_rounds : run_rounds[k].run_id = i}
LastRecord == run_rounds[Len(run_rounds)]

\* C1: a step that opens a run while another run is active closes the prior
\* run as "abandoned" with a non-null ended_at that precedes the new run's
\* started_at; afterwards active_run_id is the new run's id, not the prior one.
C1_Step ==
    (_run_id # None /\ Len(runs') > Len(runs)) =>
        /\ Len(runs') = Len(runs) + 1
        /\ runs[_run_id].ended_at = None
        /\ runs'[_run_id].end_reason = "abandoned"
        /\ runs'[_run_id].ended_at # None
        /\ runs'[_run_id].ended_at < runs'[Len(runs')].started_at
        /\ runs'[Len(runs')].ended_at = None
        /\ _run_id' = Len(runs')
        /\ _run_id' # _run_id

C1_StartRunAbandonsPrior == [][C1_Step]_vars

\* a run closed as abandoned at one clock reading and its successor opened at
\* the next one, the successor being the active run
C1_Witness ==
    \E i \in DOMAIN runs :
        /\ runs[i].end_reason = "abandoned"
        /\ i + 1 \in DOMAIN runs
        /\ runs[i + 1].started_at = runs[i].ended_at + 1
        /\ _run_id = i + 1

\* C2: every run row's rounds_completed is the number of round records stored
\* under the run's id.
C2_RoundsCompletedCountsRecords ==
    \A i \in DOMAIN runs :
        runs[i].rounds_completed = Cardinality(RecordsOfRun(i))

\* a closed run with two records and a later run with a record of its own
C2_Witness ==
    \E i \in DOMAIN runs :
        /\ runs[i].ended_at # None
        /\ Cardinality(RecordsOfRun(i)) = 2
        /\ i + 1 \in DOMAIN runs
        /\ Cardinality(RecordsOfRun(i + 1)) = 1

\* a cycle of the running loop that reads a label other than those in Not,
\* with "3-10" as the stored previous label and a run active
TerminalRoundLeft(Not) ==
    /\ thread = "running" /\ thread' = "running"
    /\ _run_id # None
    /\ prev_round = L310
    /\ current_round' \notin Not

TerminalRoundRecorded ==
    /\ Len(run_rounds') = Len(run_rounds) + 1
    /\ run_rounds'[Len(run_rounds')].round_number = L310
    /\ run_rounds'[Len(run_rounds')].run_id = _run_id
    /\ SubSeq(run_rounds', 1, Len(run_rounds)) = run_rounds
    /\ runs'[_run_id].end_reason = "completed"
    /\ runs'[_run_id].ended_at # None
    /\ runs'[_run_id].rounds_completed = runs[_run_id].rounds_completed + 1

\* C3: with a run active, a label change from "3-10" to any other label writes
\* a round record labelled "3-10" and closes the run as "completed".
C3_AnyLabelAfterTerminal ==
    [][TerminalRoundLeft({L310, NoLabel}) => TerminalRoundRecorded]_vars

\* C3 (amended): the same for every other label except "1-1".
C3_LabelAfterTerminalCompletes ==
    [][TerminalRoundLeft({L310, NoLabel, L11}) => TerminalRoundRecorded]_vars

\* the loop has moved on from "3-10" to a later label, the record "3-10" is
\* the last one written and its run is closed as completed
C3_Witness ==
    /\ thread = "running"
    /\ current_round \in {L12, L25}
    /\ prev_round = current_round
    /\ _run_id = None
    /\ Len(run_rounds) >= 2
    /\ LastRecord.round_number = L310
    /\ runs[LastRecord.run_id].end_reason = "completed"

\* C4: with a run active and "3-10" the last label seen, a cycle without a
\* label records "3-10" once and closes the run as "completed"; cycles that
\* follow without a label write nothing.
C4_Step ==
    /\ (TerminalRoundLeft(Labels) /\ current_round' = NoLabel) =>
           (TerminalRoundRecorded /\ _run_id' = None /\ prev_round' = NoLabel)
    /\ (thread = "running" /\ thread' = "running" /\ current_round = NoLabel
        /\ current_round' = NoLabel) =>
           (run_rounds' = run_rounds /\ runs' = runs)

C4_LostSignalCompletes == [][C4_Step]_vars

\* the signal was lost after "3-10": the previous label is reset, the record
\* "3-10" is the last one and its run is completed
C4_Witness ==
    /\ thread = "running"
    /\ current_round = NoLabel
    /\ prev_round = NoLabel
    /\ _run_id = None
    /\ Len(run_rounds) >= 1
    /\ LastRecord.round_number = L310
    /\ runs[LastRecord.run_id].end_reason = "completed"
    /\ runs[LastRecord.run_id].rounds_completed = Cardinality(RecordsOfRun(LastRecord.run_id))

\* C5: once the vision thread has ended after the stop signal, no run is left
\* active: the run that was active is closed (as "abandoned", ended_at set).
C5_StopLeavesNoActiveRun ==
    thread \in {"returned", "killed"} =>
        /\ stop_event
        /\ _run_id = None
        /\ \A i \in DOMAIN runs :
              runs[i].ended_at # None /\ runs[i].end_reason # "NULL"

\* C6: the loop creates a run only in a cycle that reads "1-1" while the stored
\* previous label is another one; as long as no "1-1" has been read (there is
\* no run yet), cycles create no run and write no round record.
C6_Step ==
    /\ Len(runs') > Len(runs) =>
           /\ current_round' = L11
           /\ prev_round # L11
           /\ current_round # L11
           /\ Len(runs') = Len(runs) + 1
    /\ (runs = <<>> /\ current_round' # L11) =>
           (runs' = <<>> /\ run_rounds' = <<>>)
    /\ Len(run_rounds') > Len(run_rounds) => runs # <<>>

C6_RunCreatedOnlyAtFirstRound == [][C6_Step]_vars

\* monitoring started in the middle of a match: labels up to "3-10" were read
\* and the signal was then lost, and nothing has been written
C6_Witness ==
    /\ thread = "running"
    /\ prev_round = L310
    /\ current_round = NoLabel
    /\ runs = <<>>
    /\ run_rounds = <<>>

\* C7: within one run, the labels of the round records, in the order written,
\* are strictly increasing in absolute round number.
C7_LabelsIncreaseWithinRun ==
    \A k, m \in DOMAIN run_rounds :
        (k < m /\ run_rounds[k].run_id = run_rounds[m].run_id) =>
            _round_str_to_int(run_rounds[k].round_number)
                < _round_str_to_int(run_rounds[m].round_number)

\* C8: at most one run row has a null ended_at, and that row is the recorder's
\* active run.
C8_NoOverlappingRuns ==
    /\ Cardinality(OpenRuns) <= 1
    /\ \A i \in OpenRuns : _run_id = i
    /\ _run_id # None => _run_id \in OpenRuns

\* a closed run and, after it, one open run that is the active one
C8_Witness ==
    /\ Len(runs) = 2
    /\ runs[1].ended_at # None
    /\ OpenRuns = {2}
    /\ _run_id = 2

\* the record written before record k under the same run (0: none)
PrevRecordOfRun(k) ==
    LET before == {j \in RecordsOfRun(run_rounds[k].run_id) : j < k}
    IN IF before = {} THEN 0 ELSE CHOOSE j \in before : \A i \in before : i <= j

\* C9: items_built and life_lost are never negative and are 0 on the first
\* record of a run; on a later record items_built is
\* max(0, previous component_count - component_count) and, both lives being
\* known, life_lost is max(0, previous lives - lives).
C9_DeltasFromPreviousRecord ==
    \A k \in DOMAIN run_rounds :
        LET r == run_rounds[k]
            j == PrevRecordOfRun(k)
        IN /\ r.items_built >= 0
           /\ r.life_lost >= 0
           /\ j = 0 => (r.items_built = 0 /\ r.life_lost = 0)
           /\ j # 0 =>
                /\ r.items_built =
                     Max(0, run_rounds[j].component_count - r.component_count)
                /\ (run_rounds[j].lives # None /\ r.lives # None) =>
                     r.life_lost = Max(0, run_rounds[j].lives - r.lives)

\* component counts 5 then 3 and lives 3 then 2 within one run, and then the
\* first record of the next run, with fewer components and lives again
C9_Witness ==
    /\ Len(run_rounds) = 3
    /\ run_rounds[1].run_id = 1 /\ run_rounds[2].run_id = 1
    /\ run_rounds[1].component_count = 5 /\ run_rounds[2].component_count = 3
    /\ run_rounds[1].lives = 3 /\ run_rounds[2].lives = 2
    /\ run_rounds[2].items_built = 2 /\ run_rounds[2].life_lost = 1
    /\ run_rounds[3].run_id = 2
    /\ run_rounds[3].component_count < run_rounds[2].component_count
    /\ run_rounds[3].items_built = 0 /\ run_rounds[3].life_lost = 0

\* the star levels stored with record k (0: the unit is not in the record)
StarsOfRecord(k) ==
    IF k = 0 THEN NoStars
    ELSE _build_star_map(run_rounds[k].board_champions,
                         run_rounds[k].bench_champions)

\* C10: star_ups is the number of units whose star level is greater than at
\* the previous record of the run, units absent from that record not counted.
C10_StarUpsCountsUnits ==
    \A k \in DOMAIN run_rounds :
        LET cur == StarsOfRecord(k)
            prev == StarsOfRecord(PrevRecordOfRun(k))
        IN run_rounds[k].star_ups =
              Cardinality({n \in Names : cur[n] > prev[n] /\ prev[n] > 0})

\* C11: a cycle in which a telemetry write raises a database error leaves the
\* vision loop running, ready for the next frame.
C11_WriteFailureKeepsLoopRunning ==
    [][(\E cur \in Labels \cup {NoLabel}, state \in Snapshots,
           ionia_path \in IoniaReadings, finally_raises \in BOOLEAN :
           CycleWriteFails(cur, state, ionia_path, finally_raises))
       => thread' = "running"]_vars

\* C12: a cycle of the capture worker neither writes the companion window's
\* last frame nor the fields the GUI thread mutates (the Ionia lock, which the
\* unlock button clears).
C12_WorkerLeavesGuiStateAlone ==
    [][(\E cur \in Labels \cup {NoLabel}, state \in Snapshots,
           ionia_path \in IoniaReadings : Cycle(cur, state, ionia_path))
       => UNCHANGED companion_vars]_vars

\* C13: every run row the vision loop has closed has end_reason "completed" or
\* "abandoned", and once the loop has stopped no run is left open: the run
\* that could not be closed earlier was closed as "abandoned".
C13_NoEliminatedAndClosedAtShutdown ==
    /\ \A i \in DOMAIN runs :
          runs[i].end_reason \in {"NULL", "completed", "abandoned"}
    /\ thread \in {"returned", "killed"} =>
          \A i \in DOMAIN runs :
             /\ runs[i].ended_at # None
             /\ runs[i].end_reason \in {"completed", "abandoned"}

\* C14: a step taken while no run is active that opens no run (record_round,
\* end_run) leaves the tables and the recorder as they are: no round record,
\* no change to a run row, active_run_id still None.
C14_Step ==
    (_run_id = None /\ Len(runs') = Len(runs)) =>
        /\ run_rounds' = run_rounds
        /\ runs' = runs
        /\ _run_id' = None
        /\ UNCHANGED <<_rounds_completed, _prev_components, _prev_lives,
                       _prev_champion_stars>>

C14_NoActiveRunNoEffect == [][C14_Step]_vars

\* rows exist, no run is active, and the recorder is used directly
C14_Witness ==
    /\ thread = "none"
    /\ _run_id = None
    /\ Len(runs) > 0
    /\ Len(run_rounds) > 0

\* C15: _round_str_to_int returns (s - 1) * 10 + r for a label of two decimal
\* integers s and r around one dash ("1-1" gives 1, "2-5" 15, "3-10" 30) and 0
\* for every other string (None, "", no dash, a part that is not a number,
\* more than one dash); it always returns a number.
C15_RoundNumberOfLabel ==
    (call.fn = "_round_str_to_int" /\ result.returned) =>
        LET s == call.args[1]
            dashes == {i \in DOMAIN s : s[i] = "-"}
            d == CHOOSE i \in dashes : TRUE
            wellFormed ==
                /\ Cardinality(dashes) = 1
                /\ 1 < d /\ d < Len(s)
                /\ \A i \in DOMAIN s : i # d => s[i] \in Digits
        IN /\ result.value \in Int
           /\ wellFormed =>
                 result.value = (IntOf(SubSeq(s, 1, d - 1)) - 1) * 10
                                + IntOf(SubSeq(s, d + 1, Len(s)))
           /\ ~wellFormed => result.value = 0
           /\ s = L11 => result.value = 1
           /\ s = L25 => result.value = 15
           /\ s = L310 => result.value = 30

\* "3-10" has been converted
C15_Witness ==
    /\ call = Call("_round_str_to_int", <<L310>>)
    /\ result = Returned(30)

\* C16: interest(gold) is min(gold // 10, 5) units of 1000 points a round: 0
\* points for gold 0, 3000 for 35, 5000 for 50 and for 99; no smaller gold
\* gives more, and it is never above 5 units.
C16_InterestCapped ==
    (call.fn = "interest" /\ result.returned) =>
        LET gold == call.args[1]
            units == result.value
        IN /\ units = (IF gold \div 10 <= 5 THEN gold \div 10 ELSE 5)
           /\ units <= 5
           /\ \A g \in 0..gold : interest(g) <= units
           /\ gold = 0 => units * 1000 = 0
           /\ gold = 35 => units * 1000 = 3000
           /\ gold = 50 => units * 1000 = 5000
           /\ gold = 99 => units * 1000 = 5000

\* interest has been computed for 99 gold
C16_Witness ==
    /\ call = Call("interest", <<99>>)
    /\ result = Returned(5)

\* C17: projected_score returns component_pts = n * 2500 * 30, interest_pts =
\* min(gold // 10, 5) * 1000 * 30, surviving_pts = units * 250 * 30, time_pts =
\* 2750 * 30 and their sum as total, whatever current_round is.
C17_ProjectionIgnoresRound ==
    (call.fn = "projected_score" /\ result.returned) =>
        LET n == call.args[2]
            gold == call.args[3]
            units == call.args[4]
            r == result.value
        IN /\ r.component_pts = n * 2500 * 30
           /\ r.interest_pts = (IF gold \div 10 <= 5 THEN gold \div 10 ELSE 5) * 1000 * 30
           /\ r.surviving_pts = units * 250 * 30
           /\ r.time_pts = 2750 * 30
           /\ r.total = r.component_pts + r.interest_pts + r.surviving_pts + r.time_pts
           /\ \A cr \in ScoreRounds : projected_score(cr, n, gold, units) = r

\* a projection made at round 15 with gold and components in hand
C17_Witness ==
    /\ call = Call("projected_score", <<15, 2, 35, 1>>)
    /\ result.returned
    /\ result.value.total = 330000

DedupOrders(ms) ==
    {[i \in DOMAIN ms |-> ms[f[i]]] : f \in Permutations(DOMAIN ms)}

\* of hits that collide only the best survives: the kept hits do not collide
\* with each other, and a dropped hit collides with a kept one that is at
\* least as confident
DedupCollapses(ms, kept) ==
    /\ Range(kept) \subseteq Range(ms)
    /\ \A i, j \in DOMAIN kept : i # j => ~Collides(kept[i], kept[j], 10)
    /\ \A m \in Range(ms) \ Range(kept) :
          \E k \in Range(kept) :
             Collides(m, k, 10) /\ k.confidence >= m.confidence
    /\ (Len(ms) = 2 /\ Collides(ms[1], ms[2], 10)
           /\ ms[1].confidence # ms[2].confidence) =>
          kept = <<IF ms[1].confidence > ms[2].confidence THEN ms[1] ELSE ms[2]>>

C19_StarsAlwaysATier ==
    (call.fn = "_detect_stars" /\ result.returned) =>
        LET h == call.args[1]
            w == call.args[2]
            x == call.args[3]
            y == call.args[4]
        IN /\ result.value \in {1, 2, 3}
           /\ (y + 60 >= h \/ Max(0, x - 10) >= w) => result.value = 1

\* C20: with the silver count fixed, no smaller gold count gives a higher
\* tier, and a gold count above 50 gives tier 3 whatever the silver count.
C20_TierMonotonicInGold ==
    (call.fn = "_detect_stars" /\ result.returned /\ result.value # 0) =>
        LET gold_pixels == call.args[5]
            silver_pixels == call.args[6]
        IN /\ gold_pixels > 50 => result.value = 3
           /\ \A g \in 0..gold_pixels :
                 StarsFromPips(g, silver_pixels) <= result.value

\* a strip with more than 50 gold pixels and as many silver ones
C20_Witness ==
    /\ call = Call("_detect_stars", <<100, 100, 0, 0, 51, 60>>)
    /\ result = Returned(3)

\* C25: in a cycle that sees a round boundary while a run is active (the label
\* differs from the stored previous label, which is not None, and is not
\* "1-1") exactly one record is appended, labelled with the previous label and
\* carrying the gold, level, lives and component count of the snapshot of that
\* cycle; a cycle whose label equals the previous one appends nothing; no step
\* changes a record already written.
C25_Step ==
    /\ \A k \in DOMAIN run_rounds :
          k \in DOMAIN run_rounds' /\ run_rounds'[k] = run_rounds[k]
    /\ current_round' = prev_round => run_rounds' = run_rounds
    /\ (/\ _run_id # None
        /\ prev_round # NoLabel
        /\ current_round' # NoLabel
        /\ current_round' # prev_round
        /\ current_round' # L11) =>
          /\ Len(run_rounds') = Len(run_rounds) + 1
          /\ LET r == run_rounds'[Len(run_rounds')]
             IN /\ r.run_id = _run_id
                /\ r.round_number = prev_round
                /\ \E state \in Snapshots, ionia_path \in IoniaReadings :
                      /\ Cycle(current_round', state, ionia_path)
                      /\ r.gold = state.gold
                      /\ r.level = state.level
                      /\ r.lives = state.lives
                      /\ r.component_count = state.num_components

C25_OneRecordPerBoundary == [][C25_Step]_vars

\* two boundaries of one run have been recorded, the first with 35 gold in hand
C25_Witness ==
    /\ thread = "running"
    /\ _run_id # None
    /\ Len(run_rounds) = 2
    /\ run_rounds[1].round_number = L11
    /\ run_rounds[1].gold = 35
    /\ run_rounds[2].round_number = L12
    /\ run_rounds[2].run_id = run_rounds[1].run_id
    /\ current_round = L25

\* C28: no step changes the row of a run that has been closed (ended_at,
\* end_reason, rounds_completed) or adds a round record under its id.
C28_Step ==
    \A i \in DOMAIN runs :
        runs[i].ended_at # None =>
            /\ runs'[i] = runs[i]
            /\ {k \in DOMAIN run_rounds' : run_rounds'[k].run_id = i} = RecordsOfRun(i)

C28_ClosedRunImmutable == [][C28_Step]_vars

\* a closed run with records, and records written for the run after it
C28_Witness ==
    /\ Len(runs) = 2
    /\ runs[1].ended_at # None
    /\ RecordsOfRun(1) # {}
    /\ RecordsOfRun(2) # {}

\* the lives of the latest record of run i that has lives, None if there is none
LastKnownLives(rounds, i) ==
    LET known == {k \in DOMAIN rounds : rounds[k].run_id = i /\ rounds[k].lives # None}
    IN IF known = {} THEN None
       ELSE rounds[CHOOSE k \in known : \A j \in known : j <= k].lives

\* C30: a record written with lives = None has life_lost 0 and leaves the
\* recorder's last-known lives as it was, so that a record with known lives is
\* compared with the last known lives of the run; the last-known component
\* count becomes the count of the record, whatever it is.
C30_Step ==
    /\ _run_id' # None => _prev_lives' = LastKnownLives(run_rounds', _run_id')
    /\ Len(run_rounds') = Len(run_rounds) + 1 =>
          LET r == run_rounds'[Len(run_rounds')]
          IN /\ r.lives = None => (r.life_lost = 0 /\ _prev_lives' = _prev_lives)
             /\ r.lives # None =>
                   r.life_lost =
                       (IF LastKnownLives(run_rounds, r.run_id) = None THEN 0
                        ELSE Max(0, LastKnownLives(run_rounds, r.run_id) - r.lives))
             /\ _prev_components' = r.component_count

C30_UnreadLivesKeepLastKnown == [][C30_Step]_vars

\* lives 3, then unread, then 2: the third record lost one life
C30_Witness ==
    /\ Len(run_rounds) = 3
    /\ \A k \in 1..3 : run_rounds[k].run_id = run_rounds[1].run_id
    /\ run_rounds[1].lives = 3
    /\ run_rounds[2].lives = None
    /\ run_rounds[2].life_lost = 0
    /\ run_rounds[3].lives = 2
    /\ run_rounds[3].life_lost = 1

\* C21: for a reading that is a string of digits, _read_lives returns its
\* integer value if that is in 1..3 and None otherwise, and _read_level returns
\* it if it is in 1..10 and None otherwise.
C21_ImplausibleReadingsDiscarded ==
    (call.fn \in {"_read_lives", "_read_level"} /\ result.returned) =>
        LET text == call.args[1]
            top == IF call.fn = "_read_lives" THEN 3 ELSE 10
        IN (Len(text) > 0 /\ \A i \in DOMAIN text : text[i] \in Digits) =>
              result.value =
                  (IF 1 <= IntOf(text) /\ IntOf(text) <= top THEN IntOf(text)
                   ELSE None)

\* C24: board_hex_regions returns rows * cols regions, row by row from row 0:
\* the region of (row, col) is at index row * cols + col, with x = origin.x +
\* col * col_width (+ row_offset in odd rows), y = origin.y + row * row_height,
\* w = col_width and h = the cell height.
C24_HexRegionsRowMajor ==
    (call.fn = "board_hex_regions" /\ result.returned) =>
        LET l == call.args[1]
            regions == result.value
        IN /\ Len(regions) = l.rows * l.cols
           /\ \A row \in 0..(l.rows - 1), col \in 0..(l.cols - 1) :
                 LET r == regions[row * l.cols + col + 1]
                 IN /\ r.x = l.ox + col * l.col_width
                             + (IF row % 2 = 1 THEN l.row_offset ELSE 0)
                    /\ r.y = l.oy + row * l.row_height
                    /\ r.w = l.col_width
                    /\ r.h = l.portrait_h

\* the default grid of 4 rows of 7 cells: 28 regions, the last one in an odd row
C24_Witness ==
    /\ call = Call("board_hex_regions",
                   <<HexLayout(<<600, 555>>, 7, 4, <<194, 130, 97, 115>>)>>)
    /\ result.returned
    /\ Len(result.value) = 28
    /\ result.value[28] = ScreenRegion(600 + 6 * 194 + 97, 555 + 3 * 130, 194, 115)

\* C29: whenever the reader emits a round label, the rounds_remaining the loop
\* computes from it lies in 0..30.
C29_RoundsRemainingInRange ==
    (call.fn = "rounds_remaining" /\ result.returned
        /\ result.value.current_round # NoLabel) =>
        /\ 0 <= result.value.rounds_remaining
        /\ result.value.rounds_remaining <= 30

\* C22: read never raises, and a sub-read that fails or finds nothing leaves
\* its own field None or empty while every other field is what the frame shows.
C22_ReadNeverRaises ==
    (call.fn = "read" /\ result.returned) =>
        LET frame == call.args[2]
            r == result.value
        IN /\ ~r.raised
           /\ r.state.round_number =
                 (IF frame.fault = "round_number" THEN NoLabel ELSE frame.round)
           /\ r.state.gold = (IF frame.fault = "gold" THEN None ELSE frame.gold)
           /\ frame.fault = "shop" =>
                 \A i \in DOMAIN r.state.shop : r.state.shop[i] = ""
           /\ frame.fault # "shop" =>
                 \A i \in DOMAIN frame.shop_cards :
                    frame.shop_cards[i] # NoCard =>
                       r.state.shop[i] = frame.shop_cards[i]

\* a frame that shows nothing: no round label, no gold, no item, five dark
\* shop slots
AllBlack(frame) ==
    /\ frame.round = NoLabel
    /\ frame.gold = None
    /\ frame.items = <<>>
    /\ frame.shop_cards = DarkShop
    /\ frame.augments = <<>>

C27_PhaseAlwaysPlanning ==
    (call.fn = "read" /\ result.returned /\ ~result.value.raised) =>
        /\ result.value.state.phase = "planning"
        /\ result.value.state.augment_choices = <<>>

\* a frame that shows three augments, read by a reader with an augment matcher
C27_Witness ==
    /\ call.fn = "read"
    /\ call.args[1].augment_matcher
    /\ call.args[2].augments = <<"X", "Y", "Z">>
    /\ result.returned
    /\ ~result.value.raised
    /\ result.value.state.augment_choices = <<>>

\* C26: a state whose round label is "1-1" clears the augment tracking -- the
\* picked augments, the names seen, the current augment round and the current
\* choices -- whatever the window held before and whatever that state carries
C26_NewGameResetsAugments ==
    [][\A augment_choices \in ChoiceLists, ionia_path \in IoniaReadings :
          UpdateGameState(L11, augment_choices, ionia_path)
          => augments' = NoAugments]_vars

\* the window has been handed a "1-1" state that itself shows choices, after
\* a frame was set, and holds no augment tracking
C26_Witness ==
    /\ call.fn = "update_game_state"
    /\ call.args[1] = L11
    /\ call.args[2] # <<>>
    /\ _last_frame = Frame
    /\ augments = NoAugments

====
